---- MODULE Spec2Model ----
(***************************************************************************)
(* A model of the OracleAccount wrapper of the Switchboard Solana SDK      *)
(* (javascript/solana.js/src/accounts/oracleAccount.ts).                   *)
(*                                                                         *)
(* One client drives one OracleAccount instance.  Every `await` of the     *)
(* source is a step of its own, so that the chain may change between two   *)
(* reads of the same invocation.  The on-chain program is the environment. *)
(***************************************************************************)
EXTENDS Integers, Sequences, FiniteSets, TLC

VARIABLES
    account,   \* the OracleAccount instance: its publicKey and program fields
    chain,     \* what the RPC node answers: the on-chain accounts
    op,        \* the operation the caller invoked ("none" when idle)
    pc,        \* where the invocation stands
    params,    \* the arguments of the invocation
    locals,    \* the local constants and variables of the running functions
    trace,     \* the RPC reads and the submissions of the invocation, in order
    result     \* what the invocation gave back to the caller

vars == <<account, chain, op, pc, params, locals, trace, result>>

-----------------------------------------------------------------------------
(* Bounds *)

\* how many other oracles may heartbeat on the queue besides this one
MaxPeers == 1
\* the largest stake amount a caller passes (the smallest is -1)
MaxStake == 1
\* the most instructions mint.getOrCreateWrappedUserInstructions returns
MaxWrapIxns == 2

-----------------------------------------------------------------------------
(* Values *)

\* JavaScript's undefined: an optional parameter or field that is absent, and
\* what reading an array past its end gives
Undefined == <<>>

Key(name) == <<name>>
Keypair(pk) == <<"keypair", pk>>
PublicKeyOf(kp) == kp[2]

\* program.walletPubkey: the payer of the submitting operations
Payer == Key("payer")
\* another key a caller may hold the keypair of
AltAuthority == Key("altAuthority")
ProgramId == Key("switchboardProgramId")
ProgramState == Key("programState")
ProgramStateBump == 2^8 - 3
MintAddress == Key("nativeMint")
QueuePk == Key("queue")
QueueAuthority == Key("queueAuthority")
DataBuffer == Key("queueDataBuffer")
\* the tokenAccount recorded in the oracle's on-chain data
StakingWallet == Key("stakingWallet")
\* token accounts a caller may pass
CustomWallet == Key("customWallet")
FunderWallet == Key("funderWallet")
WithdrawDest == Key("withdrawDestination")
SystemProgramId == Key("systemProgram")
TokenProgramId == Key("tokenProgram")

\* the associated token account of an owner for the program's mint
GetAssociatedAddress(owner) == <<"ata", owner, MintAddress>>

\* amounts: an optional number
NoAmount == Undefined
Amount(n) == <<n>>
\* JavaScript truthiness of an optional number
Truthy(a) == a # Undefined /\ a[1] # 0

\* arr[i] of JavaScript: zero-based, undefined outside the array
At(arr, i) == IF i + 1 \in DOMAIN arr THEN arr[i + 1] ELSE Undefined

Range(s) == {s[i] : i \in DOMAIN s}

-----------------------------------------------------------------------------
(* Program derived addresses *)

MaxBump == 2^8 - 1

\* Buffer.from(text) and PublicKey.toBuffer(): the bytes of a seed
BufferFrom(text) == <<text>>
ToBuffer(key) == key

\* a stand-in for the hash of the seeds: the length of their leading texts
RECURSIVE SeedWeight(_)
SeedWeight(seeds) ==
    IF seeds = <<>> THEN 0
    ELSE Len(Head(seeds)[1]) + SeedWeight(Tail(seeds))

\* whether the candidate address of (seeds, bump) lies on the ed25519 curve
OnCurve(seeds, programId, bump) ==
    (SeedWeight(seeds) + SeedWeight(<<programId>>) + bump) % 2 = 0

\* the loop of findProgramAddressSync: the first bump, from b down, whose
\* candidate address is off the curve
RECURSIVE FindBump(_, _, _)
FindBump(seeds, programId, b) ==
    IF ~OnCurve(seeds, programId, b) \/ b = 0 THEN b
    ELSE FindBump(seeds, programId, b - 1)

\* anchor.utils.publicKey.findProgramAddressSync(seeds, programId)
FindProgramAddressSync(seeds, programId) ==
    LET bump == FindBump(seeds, programId, MaxBump)
    IN  <<(<<"pda", programId, seeds, bump>>), bump>>

\* the SwitchboardProgram the instance was constructed with
Program ==
    [ programId    |-> ProgramId,
      walletPubkey |-> Payer,
      mint         |-> MintAddress,
      programState |-> [publicKey |-> ProgramState, bump |-> ProgramStateBump] ]

\* new OracleAccount(program, publicKey)
NewOracleAccount(program, publicKey) ==
    [program |-> program, publicKey |-> publicKey]

\* a fromSeed that puts the wallet before the queue in the seeds
fromSeedSwapped(program, queue, wallet) ==
    LET pda == FindProgramAddressSync(
                   <<BufferFrom("OracleAccountData"), ToBuffer(wallet), ToBuffer(queue)>>,
                   program.programId)
    IN  <<NewOracleAccount(program, pda[1]), pda[2]>>

\* OracleAccount.fromSeed
fromSeed(program, queue, wallet) ==
    LET pda == FindProgramAddressSync(
                   <<BufferFrom("OracleAccountData"), ToBuffer(queue), ToBuffer(wallet)>>,
                   program.programId)
    IN  <<NewOracleAccount(program, pda[1]), pda[2]>>

\* PermissionAccount.fromSeed(program, authority, granter, grantee)
PermissionFromSeed(program, authority, granter, grantee) ==
    LET pda == FindProgramAddressSync(
                   <<BufferFrom("PermissionAccountData"), ToBuffer(authority),
                     ToBuffer(granter), ToBuffer(grantee)>>,
                   program.programId)
    IN  <<[publicKey |-> pda[1]], pda[2]>>

\* new QueueAccount(program, publicKey)
NewQueueAccount(publicKey) == [publicKey |-> publicKey]

\* the oracle this instance wraps, and the other oracles of its queue
OraclePk == fromSeed(Program, QueuePk, StakingWallet)[1].publicKey
PeerPk(i) == <<"peerOracle", i>>
OracleKeys == {OraclePk} \cup {PeerPk(i) : i \in 1..MaxPeers}

-----------------------------------------------------------------------------
(* The chain *)

\* types.OracleAccountData.fetch: the decoded oracle account
OracleData(c) ==
    [ oracleAuthority |-> c.authority,
      tokenAccount    |-> StakingWallet,
      queuePubkey     |-> QueuePk ]

\* QueueAccount.loadData: the decoded queue account
QueueData(c) ==
    [ authority |-> QueueAuthority, gcIdx |-> c.gcIdx, dataBuffer |-> DataBuffer ]

ChainInit ==
    chain \in [ authority  : {Payer, AltAuthority},
                permission : BOOLEAN,
                oracles    : {<<>>, <<OraclePk>>},
                gcIdx      : {0} ]

\* the oracle's authority is changed on-chain
ChainSetAuthority ==
    /\ \E a \in {Payer, AltAuthority} \ {chain.authority} :
          chain' = [chain EXCEPT !.authority = a]
    /\ UNCHANGED <<account, op, pc, params, locals, trace, result>>

\* the queue authority grants or revokes the oracle's permission account
ChainSetPermission ==
    /\ chain' = [chain EXCEPT !.permission = ~chain.permission]
    /\ UNCHANGED <<account, op, pc, params, locals, trace, result>>

\* an oracle's heartbeat puts it on the queue
ChainOracleJoins ==
    /\ \E o \in OracleKeys \ Range(chain.oracles) :
          chain' = [chain EXCEPT !.oracles = Append(chain.oracles, o)]
    /\ UNCHANGED <<account, op, pc, params, locals, trace, result>>

\* a heartbeat moves the queue's garbage-collection index on
ChainGcAdvance ==
    /\ Len(chain.oracles) > 1
    /\ chain' = [chain EXCEPT !.gcIdx = (chain.gcIdx + 1) % Len(chain.oracles)]
    /\ UNCHANGED <<account, op, pc, params, locals, trace, result>>

\* a heartbeat garbage-collects the stale oracle the index points at
ChainGcRemoves ==
    /\ chain.oracles # <<>>
    /\ LET kept == SelectSeq(chain.oracles,
                             LAMBDA o : o # chain.oracles[chain.gcIdx + 1])
       IN  chain' = [chain EXCEPT !.oracles = kept,
                                  !.gcIdx = IF chain.gcIdx < Len(kept)
                                            THEN chain.gcIdx ELSE 0]
    /\ UNCHANGED <<account, op, pc, params, locals, trace, result>>

-----------------------------------------------------------------------------
(* The client: one invocation at a time, one step per await *)

\* a ?? b
Coalesce(a, b) == IF a # Undefined THEN a ELSE b

NoResult == [status |-> "pending", error |-> "", value |-> Undefined]

\* new TransactionObject(payer, ixns, signers)
TransactionObject(payer, ixns, signers) ==
    [payer |-> payer, ixns |-> ixns, signers |-> signers]

\* the caller invokes an operation
Begin(name, p) ==
    /\ pc = "idle"
    /\ op' = name
    /\ params' = p
    /\ trace' = <<>>
    /\ UNCHANGED <<account, chain>>

\* the invocation goes on at its next await
Goto(at) ==
    /\ pc' = at
    /\ result' = NoResult

\* the invocation rejects: the error reaches the caller
Throw(err) ==
    /\ pc' = "done"
    /\ result' = [status |-> "error", error |-> err, value |-> Undefined]

\* the invocation resolves
Return(v) ==
    /\ pc' = "done"
    /\ result' = [status |-> "ok", error |-> "", value |-> v]

Traced(event) == trace' = Append(trace, event)

\* the caller has the outcome; the client is free for the next invocation
Finish ==
    /\ pc = "done"
    /\ pc' = "idle"
    /\ op' = "none"
    /\ params' = <<>>
    /\ locals' = <<>>
    /\ trace' = <<>>
    /\ result' = NoResult
    /\ UNCHANGED <<account, chain>>

ReadEvents ==
    { "read:oracle", "read:queue", "read:oracles", "read:permission",
      "read:balance", "read:rent", "read:wrap" }

\* the RPC reads and the submissions the invocation has made so far
NumReads == Cardinality({i \in DOMAIN trace : trace[i] \in ReadEvents})
NumSends == Cardinality({i \in DOMAIN trace : trace[i] = "send"})

\* program.signAndSend(txn): one submission, which the cluster accepts or not
SignAndSend(txn) ==
    /\ Traced("send")
    /\ \/ Return([signature |-> "signature", txn |-> txn])
       \/ Throw("SendTransactionError")
    /\ UNCHANGED <<account, chain, op, params, locals>>

\* a loadData that caches what it fetched on the instance
InstanceAfterLoadDataCaching(self, data) ==
    [program |-> self.program, publicKey |-> self.publicKey, data |-> data]

\* what loadData leaves on the instance: it returns the data and keeps nothing
InstanceAfterLoadData(self, data) == self

\* OracleAccount.loadData: fetch the oracle account; the RPC call fails, or
\* finds no such account (null), or gives the account's data, with which the
\* caller continues (Continue)
LoadData(Continue) ==
    /\ Traced("read:oracle")
    /\ \/ Throw("RpcError") /\ UNCHANGED <<account, locals>>
       \/ Throw("AccountNotFoundError") /\ UNCHANGED <<account, locals>>
       \/ /\ account' = InstanceAfterLoadData(account, OracleData(chain))
          /\ Continue
    /\ UNCHANGED <<chain, op, params>>

\* QueueAccount.loadData
QueueLoadData(Continue) ==
    /\ Traced("read:queue")
    /\ \/ Throw("RpcError") /\ UNCHANGED locals
       \/ Continue
    /\ UNCHANGED <<account, chain, op, params>>

\* PermissionAccount.loadData: the decoded permission account of the oracle
PermissionData(c) == [permissions |-> "PERMIT_ORACLE_HEARTBEAT"]

PermissionLoadData(Continue) ==
    /\ Traced("read:permission")
    /\ \/ Throw("RpcError") /\ UNCHANGED locals
       \/ ~chain.permission /\ Throw("AccountNotFoundError") /\ UNCHANGED locals
       \/ chain.permission /\ Continue
    /\ UNCHANGED <<account, chain, op, params>>

\* program.mint.getBalance(tokenAccount): the balance, or null when the token
\* account does not exist
\* the balances getBalance can report
Balances == {Undefined} \cup {Amount(n) : n \in 0..MaxStake}

MintGetBalance(Continue) ==
    /\ Traced("read:balance")
    /\ \/ Throw("RpcError") /\ UNCHANGED locals
       \/ Continue
    /\ UNCHANGED <<account, chain, op, params>>

-----------------------------------------------------------------------------
(* heartbeatInstruction, heartbeat *)

\* OracleAccount.heartbeatInstruction
heartbeatInstruction(self, payer, p) ==
    [ name     |-> "oracleHeartbeat",
      args     |-> [permissionBump |-> p.permission[2]],
      accounts |-> [ oracle          |-> self.publicKey,
                     oracleAuthority |-> Coalesce(p.authority, payer),
                     tokenAccount    |-> p.tokenWallet,
                     gcOracle        |-> p.gcOracle,
                     oracleQueue     |-> p.oracleQueue,
                     permission      |-> p.permission[1].publicKey,
                     dataBuffer      |-> p.dataBuffer ] ]

\* the caller builds a heartbeat instruction by hand
HeartbeatInstruction ==
    /\ \E tw \in {StakingWallet, CustomWallet}, gc \in OracleKeys,
          auth \in {Undefined, AltAuthority} :
          LET p == [ tokenWallet |-> tw, gcOracle |-> gc, oracleQueue |-> QueuePk,
                     dataBuffer |-> DataBuffer,
                     permission |-> PermissionFromSeed(account.program, QueueAuthority,
                                                       QueuePk, account.publicKey),
                     authority |-> auth ]
          IN  /\ Begin("heartbeatInstruction", p)
              /\ locals' = <<>>
              /\ Return(heartbeatInstruction(account, Payer, p))

\* the permission tuples a caller of heartbeat may pass
GivenPermission == PermissionFromSeed(Program, QueueAuthority, QueuePk, OraclePk)

\* the caller invokes heartbeat(params)
HeartbeatStart ==
    /\ \E overrides \in BOOLEAN, staleQueue \in BOOLEAN, gcIdx \in 0..MaxPeers,
          auth \in {Undefined, Keypair(Payer), Keypair(AltAuthority)} :
          /\ ~staleQueue => gcIdx = 0
          /\ Begin("heartbeat",
                   [ queueAccount |-> IF overrides THEN NewQueueAccount(QueuePk)
                                      ELSE Undefined,
                     tokenWallet  |-> IF overrides THEN CustomWallet ELSE Undefined,
                     queue        |-> IF staleQueue
                                      THEN [ authority |-> QueueAuthority,
                                             gcIdx |-> gcIdx,
                                             dataBuffer |-> DataBuffer ]
                                      ELSE Undefined,
                     permission   |-> IF overrides THEN GivenPermission
                                      ELSE Undefined,
                     authority    |-> auth ])
    /\ locals' = [ oracle |-> Undefined, tokenWallet |-> Undefined,
                   queueAccount |-> Undefined, queue |-> Undefined,
                   oracles |-> Undefined, lastPubkey |-> Undefined,
                   permission |-> Undefined, txn |-> Undefined ]
    /\ Goto("heartbeat:loadData")

\* heartbeat: const oracle = await this.loadData(), up to the next await
HeartbeatLoadData ==
    /\ pc = "heartbeat:loadData"
    /\ LET OnData(oracle) ==
               /\ locals' = [locals EXCEPT
                     !.oracle = oracle,
                     !.tokenWallet = Coalesce(params.tokenWallet, oracle.tokenAccount),
                     !.queueAccount = Coalesce(params.queueAccount,
                                               NewQueueAccount(oracle.queuePubkey)),
                     !.queue = params.queue]
               /\ Goto(IF params.queue # Undefined
                       THEN "heartbeat:loadOracles" ELSE "heartbeat:loadQueue")
       IN  LoadData(OnData(OracleData(chain)))

\* heartbeat: const queue = params?.queue ?? (await queueAccount.loadData())
HeartbeatLoadQueue ==
    /\ pc = "heartbeat:loadQueue"
    /\ LET OnData(queue) ==
               /\ locals' = [locals EXCEPT !.queue = queue]
               /\ Goto("heartbeat:loadOracles")
       IN  QueueLoadData(OnData(QueueData(chain)))

\* the gcOracle heartbeat picks from the loaded oracle list
LastPubkey(self, oracles, queue) ==
    IF Len(oracles) # 0 THEN At(oracles, queue.gcIdx) ELSE self.publicKey

\* heartbeat: const oracles = await queueAccount.loadOracles(), up to the
\* await of permissionAccount.loadData()
HeartbeatLoadOracles ==
    /\ pc = "heartbeat:loadOracles"
    /\ Traced("read:oracles")
    /\ \/ Throw("RpcError") /\ UNCHANGED locals
       \/ /\ locals' = [locals EXCEPT
                !.oracles = chain.oracles,
                !.lastPubkey = LastPubkey(account, chain.oracles, locals.queue),
                !.permission = Coalesce(params.permission,
                                   PermissionFromSeed(account.program,
                                       locals.queue.authority,
                                       locals.queueAccount.publicKey,
                                       account.publicKey))]
          /\ Goto("heartbeat:loadPermission")
    /\ UNCHANGED <<account, chain, op, params>>

\* the transaction heartbeat submits
HeartbeatTxn(self, l, p) ==
    TransactionObject(
        self.program.walletPubkey,
        << heartbeatInstruction(self, self.program.walletPubkey,
               [ tokenWallet |-> l.tokenWallet,
                 gcOracle    |-> l.lastPubkey,
                 oracleQueue |-> l.queueAccount.publicKey,
                 dataBuffer  |-> l.queue.dataBuffer,
                 permission  |-> l.permission,
                 authority   |-> l.oracle.oracleAuthority ]) >>,
        IF p.authority # Undefined THEN <<p.authority>> ELSE <<>>)

\* a heartbeat without the authority check
HeartbeatIncorrectAuthorityNever(l, p) == FALSE

\* heartbeat rejects a given authority that is not the oracle's
HeartbeatIncorrectAuthority(l, p) ==
    /\ p.authority # Undefined
    /\ l.oracle.oracleAuthority # PublicKeyOf(p.authority)

\* heartbeat: await permissionAccount.loadData() in its try block, the
\* authority check and the building of the transaction
HeartbeatLoadPermission ==
    /\ pc = "heartbeat:loadPermission"
    /\ \/ /\ Traced("read:permission")
          /\ Throw("A requested oracle permission pda account has not been initialized.")
          /\ UNCHANGED locals
       \/ /\ chain.permission
          /\ IF HeartbeatIncorrectAuthority(locals, params)
             THEN /\ Traced("read:permission")
                  /\ Throw("IncorrectAuthority")
                  /\ UNCHANGED locals
             ELSE /\ Traced("read:permission")
                  /\ locals' = [locals EXCEPT
                        !.txn = HeartbeatTxn(account, locals, params)]
                  /\ Goto("heartbeat:signAndSend")
    /\ UNCHANGED <<account, chain, op, params>>

\* a heartbeat that submits again when its first submission fails
HeartbeatSendRetrying ==
    /\ pc = "heartbeat:signAndSend"
    /\ Traced("send")
    /\ \/ Return([signature |-> "signature", txn |-> locals.txn])
       \/ NumSends = 0 /\ pc' = pc /\ result' = result
       \/ NumSends > 0 /\ Throw("SendTransactionError")
    /\ UNCHANGED <<account, chain, op, params, locals>>

\* heartbeat: await this.program.signAndSend(heartbeatTxn)
HeartbeatSend ==
    /\ pc = "heartbeat:signAndSend"
    /\ SignAndSend(locals.txn)

-----------------------------------------------------------------------------
(* stakeInstructions, stake *)

\* the decimals of the wrapped-SOL mint
Decimals == 9

\* program.mint.toTokenAmount / toTokenAmountBN
ToTokenAmount(n) == n * 10^Decimals

\* the stake amounts a caller may pass
StakeAmounts == {NoAmount} \cup {Amount(n) : n \in (-1)..MaxStake}

\* spl.createTransferInstruction(source, destination, owner, amount)
TransferInstruction(source, destination, owner, amount) ==
    [ name     |-> "splTransfer",
      args     |-> [amount |-> amount],
      accounts |-> [source |-> source, destination |-> destination, owner |-> owner] ]

\* program.mint.getOrCreateWrappedUserInstructions(payer, {fundUpTo}, user):
\* the user's associated token account, and n instructions that create and
\* fund it as far as needed
WrappedUserInstructions(payer, fundUpTo, user, n) ==
    LET owner == IF user # Undefined THEN PublicKeyOf(user) ELSE payer
    IN  << GetAssociatedAddress(owner),
           TransactionObject(
               payer,
               [i \in 1..n |-> [ name     |-> "wrap",
                                 args     |-> [fundUpTo |-> fundUpTo],
                                 accounts |-> [owner |-> owner] ]],
               IF user # Undefined THEN <<user>> ELSE <<>>) >>

\* TransactionObject.add(ixn)
TxnAdd(txn, ixn) == [txn EXCEPT !.ixns = Append(txn.ixns, ixn)]

\* a stake check that lets a zero amount through
StakeAmountRejectedZeroPasses(p) ==
    p.stakeAmount = Undefined \/ p.stakeAmount[1] < 0

\* stakeInstructions rejects a stake amount that is missing, zero or negative
StakeAmountRejected(p) ==
    ~Truthy(p.stakeAmount) \/ p.stakeAmount[1] <= 0

\* the token account stakeInstructions moves the stake from
StakeFunderTokenAccount(p, wrapped) == wrapped[1]

\* the transaction stakeInstructions returns, once the wrap instructions are known
StakeTxn(payer, p, tokenWallet, wrapped) ==
    TxnAdd(wrapped[2],
           TransferInstruction(
               StakeFunderTokenAccount(p, wrapped),
               tokenWallet,
               IF p.funderAuthority # Undefined
               THEN PublicKeyOf(p.funderAuthority) ELSE payer,
               ToTokenAmount(p.stakeAmount[1])))

\* stakeInstructions up to its first await; base holds the caller's locals
StakeInstructionsEnter(self, payer, p, base) ==
    LET si == [self |-> self, payer |-> payer, params |-> p, tokenWallet |-> p.tokenAccount]
    IN  /\ locals' = [base EXCEPT !.si = si]
        /\ IF StakeAmountRejected(p)
           THEN Throw("stake amount should be greater than 0")
           ELSE Goto(IF p.tokenAccount # Undefined
                     THEN "stakeInstructions:wrap" ELSE "stakeInstructions:loadData")

StakeParams ==
    { [ stakeAmount |-> amt, funderTokenAccount |-> fta,
        funderAuthority |-> fa, tokenAccount |-> ta ] :
        amt \in StakeAmounts, fta \in {Undefined, FunderWallet},
        fa \in {Undefined, Keypair(AltAuthority)}, ta \in {Undefined, CustomWallet} }

NoStakeLocals == [si |-> Undefined, txn |-> Undefined]

\* the caller invokes stakeInstructions(payer, params)
StakeInstructionsStart ==
    \E p \in StakeParams :
        /\ Begin("stakeInstructions", p)
        /\ StakeInstructionsEnter(account, Payer, p, NoStakeLocals)

\* the caller invokes stake(params)
StakeStart ==
    \E p \in StakeParams :
        /\ Begin("stake", p)
        /\ StakeInstructionsEnter(account, account.program.walletPubkey, p, NoStakeLocals)

\* stakeInstructions: params.tokenAccount ?? (await this.loadData()).tokenAccount
StakeInstructionsLoadData ==
    /\ pc = "stakeInstructions:loadData"
    /\ LET OnData(oracle) ==
               /\ locals' = [locals EXCEPT !.si.tokenWallet = oracle.tokenAccount]
               /\ Goto("stakeInstructions:wrap")
       IN  LoadData(OnData(OracleData(chain)))

-----------------------------------------------------------------------------
(* TransactionObject.pack *)

\* the most instructions that fit the size of one transaction
MaxIxnsPerTxn == 6

\* TransactionObject.combine succeeds when the payers agree and the sum fits
CanCombine(a, b) ==
    /\ a.payer = b.payer
    /\ Len(a.ixns) + Len(b.ixns) <= MaxIxnsPerTxn

Combine(a, b) ==
    [ payer   |-> a.payer,
      ixns    |-> a.ixns \o b.ixns,
      signers |-> a.signers \o
                  SelectSeq(b.signers, LAMBDA k : \A i \in DOMAIN a.signers : a.signers[i] # k) ]

\* TransactionObject.pack: join each transaction to the one before it while
\* it fits, and start a new one when it does not
RECURSIVE PackFrom(_, _)
PackFrom(cur, rest) ==
    IF rest = <<>> THEN <<cur>>
    ELSE IF CanCombine(cur, Head(rest))
         THEN PackFrom(Combine(cur, Head(rest)), Tail(rest))
         ELSE <<cur>> \o PackFrom(Head(rest), Tail(rest))

Pack(txns) == PackFrom(Head(txns), Tail(txns))

-----------------------------------------------------------------------------
(* createInstructions, create *)

\* Keypair.generate(): the keys a fresh token wallet may get
FreshWallets == {Key("walletA"), Key("walletBB")}

\* the byte limits of the name and the metadata of oracleInit
NameLen == 32
MetadataLen == 128

\* Buffer.from(text ?? '', 'utf8').slice(0, n)
SliceBytes(bytes, n) ==
    SubSeq(bytes, 1, IF Len(bytes) < n THEN Len(bytes) ELSE n)

\* the bytes of a name a caller passes
GivenName == [i \in 1..(NameLen + 1) |-> 97]

\* a createInstructions that always takes the payer as the authority
CreateAuthorityAlwaysPayer(payer, p) == payer

\* createInstructions: params.authority?.publicKey ?? payer
CreateAuthority(payer, p) ==
    IF p.authority # Undefined THEN PublicKeyOf(p.authority) ELSE payer

\* createInstructions: the oracle account and bump it derives
CreateOracleSeed(program, p, tokenWallet) ==
    fromSeed(program, p.queueAccount.publicKey, PublicKeyOf(tokenWallet))

\* createInstructions: the signers of the init transaction
CreateSigners(p, tokenWallet) ==
    IF p.authority # Undefined THEN <<p.authority, tokenWallet>> ELSE <<tokenWallet>>

\* createInstructions: the init transaction
OracleInitTxn(program, payer, p, tokenWallet) ==
    LET authority == CreateAuthority(payer, p)
        seed      == CreateOracleSeed(program, p, tokenWallet)
        wallet    == PublicKeyOf(tokenWallet)
    IN  TransactionObject(
            payer,
            << [ name     |-> "systemCreateAccount",
                 args     |-> [ space |-> "ACCOUNT_SIZE", lamports |-> "rentExempt",
                                programId |-> TokenProgramId ],
                 accounts |-> [fromPubkey |-> payer, newAccountPubkey |-> wallet] ],
               [ name     |-> "splInitializeAccount",
                 args     |-> <<>>,
                 accounts |-> [ account |-> wallet, mint |-> program.mint,
                                owner |-> authority ] ],
               [ name     |-> "splSetAuthority",
                 args     |-> [authorityType |-> "AccountOwner"],
                 accounts |-> [ account |-> wallet, currentAuthority |-> authority,
                                newAuthority |-> program.programState.publicKey ] ],
               [ name     |-> "oracleInit",
                 args     |-> [ name |-> SliceBytes(Coalesce(p.name, <<>>), NameLen),
                                metadata |-> SliceBytes(Coalesce(p.metadata, <<>>),
                                                        MetadataLen),
                                oracleBump |-> seed[2],
                                stateBump |-> program.programState.bump ],
                 accounts |-> [ oracle |-> seed[1].publicKey,
                                oracleAuthority |-> authority,
                                wallet |-> wallet,
                                programState |-> program.programState.publicKey,
                                queue |-> p.queueAccount.publicKey,
                                payer |-> payer,
                                systemProgram |-> SystemProgramId ] ] >>,
            CreateSigners(p, tokenWallet))

\* createInstructions stakes when params.stakeAmount && params.stakeAmount > 0
CreateStakes(p) == Truthy(p.stakeAmount) /\ p.stakeAmount[1] > 0

\* a createInstructions that returns packed[0] whatever the packing gave
CreateRejectsPackedNever(packed) == FALSE

\* createInstructions rejects a packing of more than one transaction
CreateRejectsPacked(packed) == Len(packed) > 1

CreateParams ==
    { [ queueAccount |-> NewQueueAccount(QueuePk),
        name |-> GivenName, metadata |-> Undefined, authority |-> auth,
        stakeAmount |-> amt, funderTokenAccount |-> fta, funderAuthority |-> fa ] :
        auth \in {Undefined, Keypair(AltAuthority)},
        amt \in StakeAmounts, fta \in {Undefined, FunderWallet},
        fa \in {Undefined, Keypair(AltAuthority)} }

\* createInstructions up to its first await
CreateInstructionsEnter(program, payer, p) ==
    \E fresh \in FreshWallets :
        LET tokenWallet == Keypair(fresh)
            seed == CreateOracleSeed(program, p, tokenWallet)
        IN  /\ locals' = [ tokenWallet |-> tokenWallet,
                           payer |-> payer,
                           authority |-> CreateAuthority(payer, p),
                           oracleAccount |-> seed[1],
                           oracleBump |-> seed[2],
                           oracleInit |-> Undefined,
                           txns |-> <<>>,
                           packed |-> Undefined,
                           si |-> Undefined,
                           txn |-> Undefined ]
            /\ Goto("createInstructions:rent")

\* the caller invokes OracleAccount.createInstructions(program, payer, params)
CreateInstructionsStart ==
    \E p \in CreateParams :
        /\ Begin("createInstructions", p)
        /\ CreateInstructionsEnter(Program, Payer, p)

\* the caller invokes OracleAccount.create(program, params)
CreateStart ==
    \E p \in CreateParams :
        /\ Begin("create", p)
        /\ CreateInstructionsEnter(Program, Program.walletPubkey, p)

\* createInstructions from TransactionObject.pack(txns) to its return, and on
\* into create up to its await of signAndSend; base holds the locals so far
CreateInstructionsFinish(txns, base) ==
    LET packed == Pack(txns)
    IN  /\ locals' = [base EXCEPT !.txns = txns, !.packed = packed,
                                  !.txn = IF CreateRejectsPacked(packed)
                                          THEN Undefined ELSE packed[1]]
        /\ IF CreateRejectsPacked(packed)
           THEN Throw("Expected a single TransactionObject")
           ELSE IF op = "create"
                THEN Goto("create:signAndSend")
                ELSE Return(<<base.oracleAccount, packed[1]>>)

\* createInstructions: await getMinimumBalanceForRentExemption, the init
\* transaction, and on to the next await
CreateInstructionsRent ==
    /\ pc = "createInstructions:rent"
    /\ \/ /\ Traced("read:rent")
          /\ Throw("RpcError")
          /\ UNCHANGED locals
       \/ LET oracleInit == OracleInitTxn(Program, locals.payer, params, locals.tokenWallet)
              base == [locals EXCEPT !.oracleInit = oracleInit, !.txns = <<oracleInit>>]
          IN  /\ Traced("read:rent")
              /\ IF CreateStakes(params)
                 THEN StakeInstructionsEnter(
                          locals.oracleAccount, locals.payer,
                          [ stakeAmount |-> params.stakeAmount,
                            funderAuthority |-> params.funderAuthority,
                            funderTokenAccount |-> params.funderTokenAccount,
                            tokenAccount |-> PublicKeyOf(locals.tokenWallet) ],
                          base)
                 ELSE CreateInstructionsFinish(<<oracleInit>>, base)
    /\ UNCHANGED <<account, chain, op, params>>

\* stakeInstructions: await getOrCreateWrappedUserInstructions, the transfer,
\* the return, and on into the caller up to its next await
StakeInstructionsWrap ==
    /\ pc = "stakeInstructions:wrap"
    /\ \/ /\ Traced("read:wrap")
          /\ Throw("RpcError")
          /\ UNCHANGED locals
       \/ \E n \in 0..MaxWrapIxns :
             LET si  == locals.si
                 txn == StakeTxn(si.payer, si.params, si.tokenWallet,
                            WrappedUserInstructions(si.payer, si.params.stakeAmount[1],
                                                    si.params.funderAuthority, n))
             IN  /\ Traced("read:wrap")
                 /\ CASE op = "stakeInstructions" ->
                            /\ locals' = [locals EXCEPT !.txn = txn]
                            /\ Return(txn)
                      [] op = "stake" ->
                            /\ locals' = [locals EXCEPT !.txn = txn]
                            /\ Goto("stake:signAndSend")
                      [] OTHER ->
                            CreateInstructionsFinish(Append(locals.txns, txn), locals)
    /\ UNCHANGED <<account, chain, op, params>>

\* stake: await this.program.signAndSend(stakeTxn)
StakeSend ==
    /\ pc = "stake:signAndSend"
    /\ SignAndSend(locals.txn)

\* create: await program.signAndSend(txnObject)
CreateSend ==
    /\ pc = "create:signAndSend"
    /\ SignAndSend(locals.txn)

-----------------------------------------------------------------------------
(* load, loadData, getBalance, onChange, fromSeed *)

\* a public key given as a base58 string, and new PublicKey(string)
ToBase58(key) == <<"base58", key>>
NewPublicKey(text) == text[2]
IsString(publicKey) == publicKey[1] = "base58"

\* the caller invokes OracleAccount.load(program, publicKey)
LoadStart ==
    /\ \E publicKey \in {OraclePk, ToBase58(OraclePk)} :
          /\ Begin("load", [program |-> Program, publicKey |-> publicKey])
          /\ locals' = [account |-> NewOracleAccount(Program,
                                       IF IsString(publicKey)
                                       THEN NewPublicKey(publicKey) ELSE publicKey)]
    /\ Goto("load:loadData")

\* load: const state = await account.loadData()
LoadLoadData ==
    /\ pc = "load:loadData"
    /\ LET OnData(state) ==
               /\ Return(<<locals.account, state>>)
               /\ UNCHANGED locals
       IN  LoadData(OnData(OracleData(chain)))

\* the caller invokes loadData()
LoadDataStart ==
    /\ Begin("loadData", <<>>)
    /\ locals' = <<>>
    /\ Goto("loadData:fetch")

\* loadData: await types.OracleAccountData.fetch(program, publicKey)
LoadDataFetch ==
    /\ pc = "loadData:fetch"
    /\ LET OnData(data) ==
               /\ Return(data)
               /\ UNCHANGED locals
       IN  LoadData(OnData(OracleData(chain)))

\* the caller invokes getBalance(stakingWallet)
GetBalanceStart ==
    /\ \E stakingWallet \in {Undefined, CustomWallet} :
          /\ Begin("getBalance", [stakingWallet |-> stakingWallet])
          /\ locals' = [tokenAccount |-> stakingWallet]
          /\ Goto(IF stakingWallet # Undefined
                  THEN "getBalance:getBalance" ELSE "getBalance:loadData")

\* getBalance: stakingWallet ?? (await this.loadData()).tokenAccount
GetBalanceLoadData ==
    /\ pc = "getBalance:loadData"
    /\ LET OnData(oracle) ==
               /\ locals' = [locals EXCEPT !.tokenAccount = oracle.tokenAccount]
               /\ Goto("getBalance:getBalance")
       IN  LoadData(OnData(OracleData(chain)))

\* getBalance: await this.program.mint.getBalance(tokenAccount)
GetBalanceMint ==
    /\ pc = "getBalance:getBalance"
    /\ LET OnBalance(amount) ==
               /\ IF amount = Undefined
                  THEN Throw("Failed to fetch oracle staking wallet balance")
                  ELSE Return(amount[1])
               /\ UNCHANGED locals
       IN  \E b \in Balances : MintGetBalance(OnBalance(b))

\* the caller invokes onChange(callback, commitment): the subscription is
\* registered with the connection for this.publicKey
OnChange ==
    /\ \E commitment \in {"confirmed", "finalized"} :
          /\ Begin("onChange", [commitment |-> commitment])
          /\ Return([subscribedTo |-> account.publicKey, commitment |-> commitment])
    /\ locals' = <<>>

\* the caller invokes OracleAccount.fromSeed(program, queue, wallet)
FromSeed ==
    /\ \E wallet \in FreshWallets \cup {StakingWallet} :
          /\ Begin("fromSeed", [program |-> Program, queue |-> QueuePk, wallet |-> wallet])
          /\ Return(fromSeed(Program, QueuePk, wallet))
    /\ locals' = <<>>

-----------------------------------------------------------------------------
(* getPermissions, withdrawInstruction, withdraw *)

\* getPermissions once the oracle, the queue account and the queue are known:
\* up to its await of permissionAccount.loadData()
GetPermissionsDerive(self, oracle, queueAccount, queue, base) ==
    /\ locals' = [base EXCEPT !.gp =
          [ oracle |-> oracle, queueAccount |-> queueAccount, queue |-> queue,
            permission |-> PermissionFromSeed(self.program, queue.authority,
                                              queueAccount.publicKey, self.publicKey) ]]
    /\ Goto("getPermissions:loadPermission")

\* the caller invokes getPermissions(_oracle, _queueAccount, _queue)
GetPermissionsStart ==
    \E hasOracle, hasQueueAccount, hasQueue \in BOOLEAN :
        LET p == [ oracle |-> IF hasOracle
                              THEN OracleData([authority |-> Payer]) ELSE Undefined,
                   queueAccount |-> IF hasQueueAccount
                                    THEN NewQueueAccount(QueuePk) ELSE Undefined,
                   queue |-> IF hasQueue
                             THEN QueueData([gcIdx |-> 0]) ELSE Undefined ]
            base == [ gp |-> [ oracle |-> p.oracle, queueAccount |-> p.queueAccount,
                               queue |-> p.queue, permission |-> Undefined ] ]
        IN  /\ Begin("getPermissions", p)
            /\ IF ~hasOracle
               THEN locals' = base /\ Goto("getPermissions:loadData")
               ELSE LET queueAccount == Coalesce(p.queueAccount,
                                                 NewQueueAccount(p.oracle.queuePubkey))
                    IN  IF ~hasQueue
                        THEN /\ locals' = [base EXCEPT !.gp.queueAccount = queueAccount]
                             /\ Goto("getPermissions:loadQueue")
                        ELSE GetPermissionsDerive(account, p.oracle, queueAccount,
                                                  p.queue, base)

\* getPermissions: const oracle = _oracle ?? (await this.loadData())
GetPermissionsLoadData ==
    /\ pc = "getPermissions:loadData"
    /\ LET OnData(oracle) ==
               LET queueAccount == Coalesce(params.queueAccount,
                                            NewQueueAccount(oracle.queuePubkey))
               IN  IF params.queue = Undefined
                   THEN /\ locals' = [locals EXCEPT !.gp.oracle = oracle,
                                                    !.gp.queueAccount = queueAccount]
                        /\ Goto("getPermissions:loadQueue")
                   ELSE GetPermissionsDerive(account, oracle, queueAccount,
                                             params.queue, locals)
       IN  LoadData(OnData(OracleData(chain)))

\* getPermissions: const queue = _queue ?? (await queueAccount.loadData())
GetPermissionsLoadQueue ==
    /\ pc = "getPermissions:loadQueue"
    /\ LET OnData(queue) ==
               GetPermissionsDerive(account, locals.gp.oracle, locals.gp.queueAccount,
                                    queue, locals)
       IN  QueueLoadData(OnData(QueueData(chain)))

WithdrawParams ==
    { [amount |-> amt, withdrawAccount |-> wa, authority |-> auth] :
        amt \in 1..MaxStake, wa \in {Undefined, WithdrawDest},
        auth \in {Undefined, Keypair(AltAuthority)} }

\* a withdrawInstruction that ignores params.withdrawAccount
WithdrawAccountAlwaysAssociated(payer, p) == GetAssociatedAddress(payer)

\* withdrawInstruction: params.withdrawAccount ?? getAssociatedAddress(payer)
WithdrawAccount(payer, p) ==
    Coalesce(p.withdrawAccount, GetAssociatedAddress(payer))

\* withdrawInstruction: the signers of the transaction it returns
WithdrawSigners(p) ==
    IF p.authority # Undefined THEN <<p.authority>> ELSE <<>>

\* withdrawInstruction: the transaction it returns
WithdrawTxn(self, payer, p, tokenAmount, oracle, queueAccount, permission) ==
    TransactionObject(
        payer,
        << [ name     |-> "oracleWithdraw",
             args     |-> [ stateBump |-> self.program.programState.bump,
                            permissionBump |-> permission[2],
                            amount |-> tokenAmount ],
             accounts |-> [ oracle |-> self.publicKey,
                            oracleAuthority |-> oracle.oracleAuthority,
                            tokenAccount |-> oracle.tokenAccount,
                            withdrawAccount |-> WithdrawAccount(payer, p),
                            oracleQueue |-> queueAccount.publicKey,
                            permission |-> permission[1].publicKey,
                            tokenProgram |-> TokenProgramId,
                            programState |-> self.program.programState.publicKey,
                            payer |-> payer,
                            systemProgram |-> SystemProgramId ] ] >>,
        WithdrawSigners(p))

WithdrawLocals(payer, p) ==
    [ payer |-> payer, tokenAmount |-> ToTokenAmount(p.amount),
      oracle |-> Undefined, queueAccount |-> Undefined, queue |-> Undefined,
      gp |-> Undefined, txn |-> Undefined ]

\* the caller invokes withdrawInstruction(payer, params)
WithdrawInstructionStart ==
    /\ \E p \in WithdrawParams :
          /\ Begin("withdrawInstruction", p)
          /\ locals' = WithdrawLocals(Payer, p)
    /\ Goto("withdrawInstruction:loadData")

\* the caller invokes withdraw(params)
WithdrawStart ==
    /\ \E p \in WithdrawParams :
          /\ Begin("withdraw", p)
          /\ locals' = WithdrawLocals(account.program.walletPubkey, p)
    /\ Goto("withdrawInstruction:loadData")

\* withdrawInstruction: const oracle = await this.loadData()
WithdrawInstructionLoadData ==
    /\ pc = "withdrawInstruction:loadData"
    /\ LET OnData(oracle) ==
               /\ locals' = [locals EXCEPT
                     !.oracle = oracle,
                     !.queueAccount = NewQueueAccount(oracle.queuePubkey)]
               /\ Goto("withdrawInstruction:loadQueue")
       IN  LoadData(OnData(OracleData(chain)))

\* withdrawInstruction: const queue = await queueAccount.loadData(), and the
\* call of getPermissions(oracle, queueAccount, queue) up to its await
WithdrawInstructionLoadQueue ==
    /\ pc = "withdrawInstruction:loadQueue"
    /\ LET OnData(queue) ==
               GetPermissionsDerive(account, locals.oracle, locals.queueAccount, queue,
                                    [locals EXCEPT !.queue = queue])
       IN  QueueLoadData(OnData(QueueData(chain)))

\* getPermissions: const permission = await permissionAccount.loadData(), its
\* return, and on into withdrawInstruction and withdraw up to the next await
GetPermissionsLoadPermission ==
    /\ pc = "getPermissions:loadPermission"
    /\ LET OnData(permission) ==
               IF op = "getPermissions"
               THEN /\ Return(<<locals.gp.permission[1], locals.gp.permission[2], permission>>)
                    /\ UNCHANGED locals
               ELSE LET txn == WithdrawTxn(account, locals.payer, params,
                                   locals.tokenAmount, locals.oracle,
                                   locals.queueAccount, locals.gp.permission)
                    IN  /\ locals' = [locals EXCEPT !.txn = txn]
                        /\ IF op = "withdraw"
                           THEN Goto("withdraw:signAndSend")
                           ELSE Return(txn)
       IN  PermissionLoadData(OnData(PermissionData(chain)))

\* withdraw: await this.program.signAndSend(withdrawTxn)
WithdrawSend ==
    /\ pc = "withdraw:signAndSend"
    /\ SignAndSend(locals.txn)

-----------------------------------------------------------------------------
(* toAccountsJSON *)

\* toAccountsJSON once the oracle is known, up to its next await
ToAccountsJSONWithOracle(p, oracle, base) ==
    IF p.permissionAccount = Undefined \/ p.permission = Undefined
    THEN /\ locals' = [base EXCEPT !.oracle = oracle,
                                   !.queueAccount = NewQueueAccount(oracle.queuePubkey)]
         /\ Goto("toAccountsJSON:loadQueue")
    ELSE /\ locals' = [base EXCEPT !.oracle = oracle]
         /\ Goto("toAccountsJSON:getBalance")

\* the caller invokes toAccountsJSON(_oracle, _permissionAccount, _permission)
ToAccountsJSONStart ==
    \E hasOracle, hasPermissionAccount, hasPermission \in BOOLEAN :
        LET p == [ oracle |-> IF hasOracle
                              THEN OracleData([authority |-> Payer]) ELSE Undefined,
                   permissionAccount |-> IF hasPermissionAccount
                                         THEN GivenPermission[1] ELSE Undefined,
                   permission |-> IF hasPermission
                                  THEN PermissionData(chain) ELSE Undefined ]
            base == [ oracle |-> p.oracle, queueAccount |-> Undefined,
                      permissionAccount |-> p.permissionAccount,
                      permission |-> p.permission ]
        IN  /\ Begin("toAccountsJSON", p)
            /\ IF hasOracle
               THEN ToAccountsJSONWithOracle(p, p.oracle, base)
               ELSE locals' = base /\ Goto("toAccountsJSON:loadData")

\* toAccountsJSON: const oracle = _oracle ?? (await this.loadData())
ToAccountsJSONLoadData ==
    /\ pc = "toAccountsJSON:loadData"
    /\ LET OnData(oracle) == ToAccountsJSONWithOracle(params, oracle, locals)
       IN  LoadData(OnData(OracleData(chain)))

\* toAccountsJSON: const queue = await queueAccount.loadData()
ToAccountsJSONLoadQueue ==
    /\ pc = "toAccountsJSON:loadQueue"
    /\ LET OnData(queue) ==
               /\ locals' = [locals EXCEPT !.permissionAccount =
                     PermissionFromSeed(account.program, queue.authority,
                                        locals.queueAccount.publicKey,
                                        account.publicKey)[1]]
               /\ Goto("toAccountsJSON:loadPermission")
       IN  QueueLoadData(OnData(QueueData(chain)))

\* toAccountsJSON: permission = await permissionAccount.loadData()
ToAccountsJSONLoadPermission ==
    /\ pc = "toAccountsJSON:loadPermission"
    /\ LET OnData(permission) ==
               /\ locals' = [locals EXCEPT !.permission = permission]
               /\ Goto("toAccountsJSON:getBalance")
       IN  PermissionLoadData(OnData(PermissionData(chain)))

\* toAccountsJSON: (await this.program.mint.getBalance(oracle.tokenAccount)) ?? 0
ToAccountsJSONBalance ==
    /\ pc = "toAccountsJSON:getBalance"
    /\ LET OnBalance(amount) ==
               /\ Return([ publicKey |-> account.publicKey,
                           balance |-> IF amount = Undefined THEN 0 ELSE amount[1],
                           oracle |-> locals.oracle,
                           permission |-> [ publicKey |-> locals.permissionAccount.publicKey,
                                            data |-> locals.permission ] ])
               /\ UNCHANGED locals
       IN  \E b \in Balances : MintGetBalance(OnBalance(b))

-----------------------------------------------------------------------------
(* The specification *)

Init ==
    /\ account = NewOracleAccount(Program, OraclePk)
    /\ ChainInit
    /\ op = "none"
    /\ pc = "idle"
    /\ params = <<>>
    /\ locals = <<>>
    /\ trace = <<>>
    /\ result = NoResult

Next ==
    \/ ChainSetAuthority
    \/ ChainSetPermission
    \/ ChainOracleJoins
    \/ ChainGcAdvance
    \/ ChainGcRemoves
    \/ HeartbeatInstruction
    \/ HeartbeatStart
    \/ HeartbeatLoadData
    \/ HeartbeatLoadQueue
    \/ HeartbeatLoadOracles
    \/ HeartbeatLoadPermission
    \/ HeartbeatSend
    \/ StakeInstructionsStart
    \/ StakeStart
    \/ StakeInstructionsLoadData
    \/ StakeInstructionsWrap
    \/ StakeSend
    \/ CreateInstructionsStart
    \/ CreateStart
    \/ CreateInstructionsRent
    \/ CreateSend
    \/ LoadStart
    \/ LoadLoadData
    \/ LoadDataStart
    \/ LoadDataFetch
    \/ GetBalanceStart
    \/ GetBalanceLoadData
    \/ GetBalanceMint
    \/ OnChange
    \/ FromSeed
    \/ GetPermissionsStart
    \/ GetPermissionsLoadData
    \/ GetPermissionsLoadQueue
    \/ GetPermissionsLoadPermission
    \/ WithdrawInstructionStart
    \/ WithdrawStart
    \/ WithdrawInstructionLoadData
    \/ WithdrawInstructionLoadQueue
    \/ WithdrawSend
    \/ ToAccountsJSONStart
    \/ ToAccountsJSONLoadData
    \/ ToAccountsJSONLoadQueue
    \/ ToAccountsJSONLoadPermission
    \/ ToAccountsJSONBalance
    \/ Finish

Spec == Init /\ [][Next]_vars

-----------------------------------------------------------------------------
(* transferWrappedSol (libraries/sbv2-utils/src/token.ts)                    *)
(*                                                                           *)
(* A free function over a Connection and the payer's keypair.  Here `chain`  *)
(* is the ledger the connection answers from: the payer's lamports and the   *)
(* wrapped-SOL token accounts that exist.                                    *)

\* the largest amount a caller asks to wrap
MaxAmount == 2
\* the most lamports the payer holds
MaxLamports == 3

\* the lamports a token account must hold to exist
RentExemptMinimum == 1

\* a token account of the native mint: its owner, its lamports, and the token
\* amount the token program last recorded for it
TokenAccount(owner, lamports, amount) ==
    [owner |-> owner, lamports |-> lamports, amount |-> amount]

\* the ledger: the payer's lamports and the token accounts by address
Ledger(lamports, tokens) == [lamports |-> lamports, tokens |-> tokens]

NoTokens == [a \in {} |-> TokenAccount(Payer, 0, 0)]

WithToken(tokens, address, acct) ==
    [a \in DOMAIN tokens \cup {address} |->
        IF a = address THEN acct ELSE tokens[a]]

WithoutToken(tokens, address) ==
    [a \in DOMAIN tokens \ {address} |-> tokens[a]]

\* lamports move to or from a system account; only the payer's are followed
Credit(lamports, pubkey, n) == IF pubkey = Payer THEN lamports + n ELSE lamports
Holds(lamports, pubkey, n) == pubkey # Payer \/ lamports >= n

Rejected(ledger) == [ok |-> FALSE, ledger |-> ledger]
Accepted(ledger) == [ok |-> TRUE, ledger |-> ledger]

\* the associated-token program creates the account of `owner` at the address
\* derived from (owner, mint), and rejects any other address
ProcessCreateAssociatedTokenAccount(ledger, ix) ==
    IF /\ ix.associatedToken = GetAssociatedAddress(ix.owner)
       /\ ix.associatedToken \notin DOMAIN ledger.tokens
       /\ Holds(ledger.lamports, ix.payer, RentExemptMinimum)
    THEN Accepted(Ledger(
             Credit(ledger.lamports, ix.payer, 0 - RentExemptMinimum),
             WithToken(ledger.tokens, ix.associatedToken,
                       TokenAccount(ix.owner, RentExemptMinimum, 0))))
    ELSE Rejected(ledger)

\* the system program moves lamports
ProcessSystemTransfer(ledger, ix) ==
    IF Holds(ledger.lamports, ix.fromPubkey, ix.lamports)
    THEN Accepted(Ledger(
             Credit(ledger.lamports, ix.fromPubkey, 0 - ix.lamports),
             IF ix.toPubkey \in DOMAIN ledger.tokens
             THEN [ledger.tokens EXCEPT
                      ![ix.toPubkey].lamports = @ + ix.lamports]
             ELSE ledger.tokens))
    ELSE Rejected(ledger)

\* the token program sets a native account's amount to its lamports above rent
ProcessSyncNative(ledger, ix) ==
    IF ix.account \in DOMAIN ledger.tokens
    THEN Accepted(Ledger(
             ledger.lamports,
             [ledger.tokens EXCEPT
                 ![ix.account].amount =
                     ledger.tokens[ix.account].lamports - RentExemptMinimum]))
    ELSE Rejected(ledger)

\* the token program moves `amount` (and, for the native mint, as many
\* lamports) when the authority is the source's owner and has signed
ProcessTokenTransfer(ledger, ix, signers) ==
    IF /\ ix.source \in DOMAIN ledger.tokens
       /\ ix.destination \in DOMAIN ledger.tokens
       /\ ledger.tokens[ix.source].owner = ix.owner
       /\ ix.owner \in signers
       /\ ledger.tokens[ix.source].amount >= ix.amount
    THEN Accepted(Ledger(
             ledger.lamports,
             IF ix.source = ix.destination
             THEN ledger.tokens
             ELSE [ledger.tokens EXCEPT
                      ![ix.source].amount = @ - ix.amount,
                      ![ix.source].lamports = @ - ix.amount,
                      ![ix.destination].amount = @ + ix.amount,
                      ![ix.destination].lamports = @ + ix.amount]))
    ELSE Rejected(ledger)

\* the token program closes a native account and pays its lamports out
ProcessCloseAccount(ledger, ix, signers) ==
    IF /\ ix.account \in DOMAIN ledger.tokens
       /\ ledger.tokens[ix.account].owner = ix.authority
       /\ ix.authority \in signers
    THEN Accepted(Ledger(
             Credit(ledger.lamports, ix.destination,
                    ledger.tokens[ix.account].lamports),
             WithoutToken(ledger.tokens, ix.account)))
    ELSE Rejected(ledger)

Process(ledger, ix, signers) ==
    CASE ix.name = "createAssociatedTokenAccount" ->
             ProcessCreateAssociatedTokenAccount(ledger, ix)
      [] ix.name = "systemTransfer" -> ProcessSystemTransfer(ledger, ix)
      [] ix.name = "syncNative" -> ProcessSyncNative(ledger, ix)
      [] ix.name = "splTransfer" -> ProcessTokenTransfer(ledger, ix, signers)
      [] ix.name = "closeAccount" -> ProcessCloseAccount(ledger, ix, signers)

RECURSIVE ProcessFrom(_, _, _, _)
ProcessFrom(ledger, ixns, signers, i) ==
    IF i > Len(ixns)
    THEN Accepted(ledger)
    ELSE LET step == Process(ledger, ixns[i], signers)
         IN  IF step.ok
             THEN ProcessFrom(step.ledger, ixns, signers, i + 1)
             ELSE step

\* the cluster runs a transaction's instructions in order, all or nothing
ExecuteTransaction(ledger, tx) ==
    LET run == ProcessFrom(ledger, tx.ixns, tx.signers, 1)
    IN  IF run.ok THEN run ELSE Rejected(ledger)

\* what the ledger may hold before a call: the payer's associated wrapped-SOL
\* account exists, empty, or does not exist
LedgerInit ==
    \E l \in 0..MaxLamports, exists \in BOOLEAN :
        chain = Ledger(l, IF exists
                          THEN WithToken(NoTokens, GetAssociatedAddress(Payer),
                                         TokenAccount(Payer, RentExemptMinimum, 0))
                          ELSE NoTokens)

\* the payer receives or spends lamports elsewhere
LedgerLamportsChange ==
    /\ \E l \in 0..MaxLamports :
          /\ l # chain.lamports
          /\ chain' = [chain EXCEPT !.lamports = l]
    /\ UNCHANGED <<account, op, pc, params, locals, trace, result>>

\* somebody else sends wrapped SOL to the payer's associated account
LedgerWrappedDeposit ==
    /\ GetAssociatedAddress(Payer) \in DOMAIN chain.tokens
    /\ chain.tokens[GetAssociatedAddress(Payer)].amount < MaxLamports
    /\ chain' = [chain EXCEPT
                    !.tokens[GetAssociatedAddress(Payer)].amount = @ + 1,
                    !.tokens[GetAssociatedAddress(Payer)].lamports = @ + 1]
    /\ UNCHANGED <<account, op, pc, params, locals, trace, result>>

SubmitEvents == {"send:confirmed", "send:rejected", "send:failed"}
\* the transactions the invocation has submitted so far
NumSubmitted == Cardinality({i \in DOMAIN trace : trace[i] \in SubmitEvents})

\* spl.createAssociatedTokenAccountInstruction(payer, associatedToken, owner, mint)
CreateAssociatedTokenAccountInstruction(payer, associatedToken, owner, mint) ==
    [ name |-> "createAssociatedTokenAccount", payer |-> payer,
      associatedToken |-> associatedToken, owner |-> owner, mint |-> mint ]

\* SystemProgram.transfer({fromPubkey, toPubkey, lamports})
SystemTransfer(fromPubkey, toPubkey, lamports) ==
    [ name |-> "systemTransfer", fromPubkey |-> fromPubkey,
      toPubkey |-> toPubkey, lamports |-> lamports ]

\* spl.createSyncNativeInstruction(account)
CreateSyncNativeInstruction(acct) == [ name |-> "syncNative", account |-> acct ]

\* spl.createTransferInstruction(source, destination, owner, amount, multiSigners)
CreateTransferInstruction(source, destination, owner, amount, multiSigners) ==
    [ name |-> "splTransfer", source |-> source, destination |-> destination,
      owner |-> owner, amount |-> amount, multiSigners |-> multiSigners ]

\* spl.createCloseAccountInstruction(account, destination, authority, multiSigners)
CreateCloseAccountInstruction(acct, destination, authority, multiSigners) ==
    [ name |-> "closeAccount", account |-> acct, destination |-> destination,
      authority |-> authority, multiSigners |-> multiSigners ]

\* a web3.js Transaction with the keypairs it is sent with
Transaction(ixns, signers) ==
    [ ixns |-> ixns, signers |-> {PublicKeyOf(signers[i]) : i \in DOMAIN signers} ]

\* transferWrappedSol: the transaction it builds and the signers it sends with
TransferWrappedSolTx(payerKeypair, payerAssociatedWallet, ephemeralAccount, amount) ==
    LET ephemeralWallet == GetAssociatedAddress(PublicKeyOf(ephemeralAccount))
    IN  Transaction(
            << CreateAssociatedTokenAccountInstruction(
                   PublicKeyOf(payerKeypair), ephemeralWallet,
                   PublicKeyOf(payerKeypair), MintAddress),
               SystemTransfer(PublicKeyOf(payerKeypair), ephemeralWallet, amount),
               CreateSyncNativeInstruction(ephemeralWallet),
               CreateTransferInstruction(
                   ephemeralWallet, payerAssociatedWallet,
                   PublicKeyOf(payerKeypair), amount,
                   <<payerKeypair, ephemeralAccount>>),
               CreateCloseAccountInstruction(
                   ephemeralWallet, PublicKeyOf(payerKeypair),
                   PublicKeyOf(payerKeypair),
                   <<payerKeypair, ephemeralAccount>>) >>,
            <<payerKeypair, ephemeralAccount>>)

TransferWrappedSolLocals ==
    [ payerBalance |-> Undefined, payerAssociatedWallet |-> Undefined,
      ephemeralAccount |-> Undefined, ephemeralWallet |-> Undefined,
      tx |-> Undefined, txn |-> Undefined, moved |-> Undefined ]

\* the caller invokes transferWrappedSol(connection, payerKeypair, amount)
TransferWrappedSolStart ==
    /\ \E amount \in 0..MaxAmount :
          Begin("transferWrappedSol",
                [payerKeypair |-> Keypair(Payer), amount |-> amount])
    /\ locals' = TransferWrappedSolLocals
    /\ Goto("transferWrappedSol:getBalance")

\* const payerBalance = await connection.getBalance(payerKeypair.publicKey)
TransferWrappedSolGetBalance ==
    /\ pc = "transferWrappedSol:getBalance"
    /\ Traced("read:lamports")
    /\ \/ Throw("RpcError") /\ UNCHANGED locals
       \/ /\ locals' = [locals EXCEPT !.payerBalance = Amount(chain.lamports)]
          /\ Goto("transferWrappedSol:getAccount")
    /\ UNCHANGED <<account, chain, op, params>>

\* spl.getAccount(connection, payerAssociatedWallet): as the first step of
\* getOrCreateAssociatedTokenAccount, as its last step after it tried to
\* create the account, and as transferWrappedSol's read of the final balance
TransferWrappedSolGetAccount ==
    /\ pc \in { "transferWrappedSol:getAccount",
                "transferWrappedSol:getCreatedAccount",
                "transferWrappedSol:finalBalance" }
    /\ Traced("read:tokenAccount")
    /\ LET address == GetAssociatedAddress(PublicKeyOf(params.payerKeypair))
       IN  \/ Throw("RpcError") /\ UNCHANGED locals
           \/ IF address \notin DOMAIN chain.tokens
              THEN /\ IF pc = "transferWrappedSol:getAccount"
                      THEN Goto("transferWrappedSol:createAssociated")
                      ELSE Throw("TokenAccountNotFoundError")
                   /\ UNCHANGED locals
              ELSE IF pc = "transferWrappedSol:finalBalance"
                   THEN /\ Return(chain.tokens[address].amount)
                        /\ UNCHANGED locals
                   ELSE /\ locals' = [locals EXCEPT
                                         !.payerAssociatedWallet = address]
                        /\ Goto("transferWrappedSol:generate")
    /\ UNCHANGED <<account, chain, op, params>>

\* getOrCreateAssociatedTokenAccount found no account: it submits a transaction
\* that creates it, ignores any error of that submission, and reads again
TransferWrappedSolCreateAssociated ==
    /\ pc = "transferWrappedSol:createAssociated"
    /\ LET payer == PublicKeyOf(params.payerKeypair)
           tx == Transaction(
                     << CreateAssociatedTokenAccountInstruction(
                            payer, GetAssociatedAddress(payer), payer,
                            MintAddress) >>,
                     <<params.payerKeypair>>)
           run == ExecuteTransaction(chain, tx)
       IN  \/ Traced("send:failed") /\ UNCHANGED chain
           \/ IF run.ok
              THEN Traced("send:confirmed") /\ chain' = run.ledger
              ELSE Traced("send:rejected") /\ UNCHANGED chain
    /\ Goto("transferWrappedSol:getCreatedAccount")
    /\ UNCHANGED <<account, op, params, locals>>

\* const ephemeralAccount = Keypair.generate(); its associated address; the
\* transaction
TransferWrappedSolGenerate ==
    /\ pc = "transferWrappedSol:generate"
    /\ \E k \in FreshWallets :
          locals' = [locals EXCEPT
              !.ephemeralAccount = Keypair(k),
              !.ephemeralWallet = GetAssociatedAddress(k),
              !.tx = TransferWrappedSolTx(
                         params.payerKeypair, locals.payerAssociatedWallet,
                         Keypair(k), params.amount)]
    /\ Goto("transferWrappedSol:send")
    /\ UNCHANGED <<account, chain, op, params, trace>>

\* await sendAndConfirmTransaction(connection, tx, [payerKeypair, ephemeralAccount])
TransferWrappedSolSend ==
    /\ pc = "transferWrappedSol:send"
    /\ LET run == ExecuteTransaction(chain, locals.tx)
           wallet == locals.payerAssociatedWallet
       IN  \/ /\ Traced("send:failed")
              /\ Throw("RpcError")
              /\ UNCHANGED <<chain, locals>>
           \/ IF run.ok
              THEN /\ Traced("send:confirmed")
                   /\ chain' = run.ledger
                   /\ locals' = [locals EXCEPT
                          !.txn = "signature",
                          !.moved = Amount(run.ledger.tokens[wallet].amount
                                           - chain.tokens[wallet].amount)]
                   /\ Goto("transferWrappedSol:finalBalance")
              ELSE /\ Traced("send:rejected")
                   /\ Throw("SendTransactionError")
                   /\ UNCHANGED <<chain, locals>>
    /\ UNCHANGED <<account, op, params>>

TokenInit ==
    /\ account = Undefined
    /\ LedgerInit
    /\ op = "none"
    /\ pc = "idle"
    /\ params = <<>>
    /\ locals = <<>>
    /\ trace = <<>>
    /\ result = NoResult

TokenNext ==
    \/ LedgerLamportsChange
    \/ LedgerWrappedDeposit
    \/ TransferWrappedSolStart
    \/ TransferWrappedSolGetBalance
    \/ TransferWrappedSolGetAccount
    \/ TransferWrappedSolCreateAssociated
    \/ TransferWrappedSolGenerate
    \/ TransferWrappedSolSend
    \/ Finish

TokenSpec == TokenInit /\ [][TokenNext]_vars

-----------------------------------------------------------------------------
(* Properties *)

InTrace(event) == \E i \in DOMAIN trace : trace[i] = event

StakeAmountMessage == "stake amount should be greater than 0"

\* C1: a call of stakeInstructions or stake whose stakeAmount is missing, zero
\* or negative is rejected with 'stake amount should be greater than 0', and
\* that call makes no RPC read, builds no instruction and submits nothing.
C1_StakeAmountRejectedFirst ==
    ( /\ op \in {"stakeInstructions", "stake"}
      /\ (params.stakeAmount = NoAmount \/ params.stakeAmount[1] <= 0) )
    => /\ pc = "done"
       /\ result.status = "error"
       /\ result.error = StakeAmountMessage
       /\ NumReads = 0
       /\ NumSends = 0
       /\ trace = <<>>

\* stake was called with a zero amount and has rejected it
C1_Witness ==
    /\ op = "stake"
    /\ params.stakeAmount = Amount(0)
    /\ pc = "done"
    /\ result.error = StakeAmountMessage

SubmittingOps == {"create", "stake", "heartbeat", "withdraw"}

\* C2: in one invocation of create, stake, heartbeat or withdraw every read
\* comes before the submission, what is submitted is the transaction built
\* before it, signAndSend is called at most once, the submission is the last
\* thing the invocation does,
\* and a failed read, check or submission reaches the caller as an error
\* with no second submission.
C2_LinearNoRetry ==
    op \in SubmittingOps =>
       /\ NumSends <= 1
       /\ \A i \in DOMAIN trace : trace[i] = "send" => i = Len(trace)
       /\ NumSends = 1 => /\ pc = "done"
                          /\ locals.txn # Undefined
                          /\ result.status = "ok" => result.value.txn = locals.txn
       /\ (pc = "done" /\ result.status = "ok") => NumSends = 1
       /\ (pc = "done" /\ NumSends = 0) => result.status = "error"
       /\ (result.status = "error" /\ result.error # "SendTransactionError")
             => NumSends = 0

\* a heartbeat whose one submission failed has handed the error to its caller
C2_Witness ==
    /\ op = "heartbeat"
    /\ pc = "done"
    /\ result.status = "error"
    /\ result.error = "SendTransactionError"
    /\ NumSends = 1
    /\ NumReads >= 3

\* whether an operation needs the oracle's on-chain state and was not handed it
NeedsOracleState ==
    \/ op \in {"load", "loadData", "heartbeat", "withdrawInstruction", "withdraw"}
    \/ op = "getBalance" /\ params.stakingWallet = Undefined
    \/ op \in {"getPermissions", "toAccountsJSON"} /\ params.oracle = Undefined
    \/ op \in {"stakeInstructions", "stake"} /\ params.tokenAccount = Undefined

\* C3: whatever operations have run, and whether they resolved or rejected,
\* the instance still has the publicKey and the program it was constructed
\* with and holds nothing else; and an operation that needs the oracle's
\* state and was not handed it has read it through loadData in that call.
C3_InstanceNeverMutated ==
    /\ account = NewOracleAccount(Program, OraclePk)
    /\ (pc = "done" /\ result.status = "ok" /\ NeedsOracleState)
          => InTrace("read:oracle")

\* a withdraw has gone through: it read the oracle, the queue and the
\* permission and submitted
C3_Witness ==
    /\ op = "withdraw"
    /\ pc = "done"
    /\ result.status = "ok"
    /\ NumReads = 3
    /\ NumSends = 1

StakeOps == {"stakeInstructions", "stake", "createInstructions", "create"}
CreateOps == {"createInstructions", "create"}

\* the token transfers of a transaction
TokenTransfers(txn) == SelectSeq(txn.ixns, LAMBDA ix : ix.name = "splTransfer")

\* C4: when stakeInstructions has built its transaction (called directly, by
\* stake, or by createInstructions with stakeAmount > 0), the source of the
\* token transfer into the staking wallet is params.funderTokenAccount when
\* the caller gave it, and the payer's associated token account otherwise.
C4_FunderTokenAccountUsed ==
    (op \in StakeOps /\ locals.si # Undefined /\ locals.txn # Undefined) =>
       \A i \in DOMAIN TokenTransfers(locals.txn) :
          LET transfer == TokenTransfers(locals.txn)[i]
              given    == locals.si.params.funderTokenAccount
          IN  /\ transfer.accounts.destination = locals.si.tokenWallet
              /\ transfer.accounts.source =
                    IF given # Undefined THEN given
                    ELSE GetAssociatedAddress(locals.si.payer)

\* C5: in createInstructions the authority is params.authority's public key
\* when a keypair is given and the payer otherwise; that key owns the new
\* token wallet, is the current authority of the set-authority instruction
\* and the oracleAuthority of oracleInit; the signers of the init transaction
\* are the fresh token-wallet keypair, and params.authority exactly when given.
C5_CreateAuthority ==
    (op \in CreateOps /\ locals.oracleInit # Undefined) =>
       LET init      == locals.oracleInit
           authority == IF params.authority # Undefined
                        THEN PublicKeyOf(params.authority) ELSE locals.payer
       IN  /\ locals.authority = authority
           /\ init.ixns[2].name = "splInitializeAccount"
           /\ init.ixns[2].accounts.owner = authority
           /\ init.ixns[3].name = "splSetAuthority"
           /\ init.ixns[3].accounts.currentAuthority = authority
           /\ init.ixns[4].name = "oracleInit"
           /\ init.ixns[4].accounts.oracleAuthority = authority
           /\ locals.tokenWallet \in Range(init.signers)
           /\ Range(init.signers) =
                 {locals.tokenWallet} \cup
                 (IF params.authority # Undefined THEN {params.authority} ELSE {})

\* createInstructions was given an authority keypair and has returned
C5_Witness ==
    /\ op = "createInstructions"
    /\ params.authority = Keypair(AltAuthority)
    /\ pc = "done"
    /\ result.status = "ok"
    /\ locals.oracleInit.ixns[4].accounts.oracleAuthority = AltAuthority

WithdrawOps == {"withdrawInstruction", "withdraw"}

\* C6: the transaction withdrawInstruction builds pays out to
\* params.withdrawAccount when given and to the payer's associated token
\* account otherwise, debits the tokenAccount of the oracle data it read, names
\* the oracleAuthority of that data, and is signed by params.authority exactly
\* when given; withdrawInstruction submits nothing, and a withdraw that
\* resolves has submitted exactly once.
C6_WithdrawInstruction ==
    op \in WithdrawOps =>
       /\ locals.txn # Undefined =>
             LET ix == locals.txn.ixns[1]
             IN  /\ Len(locals.txn.ixns) = 1
                 /\ ix.name = "oracleWithdraw"
                 /\ ix.accounts.withdrawAccount =
                       IF params.withdrawAccount # Undefined
                       THEN params.withdrawAccount
                       ELSE GetAssociatedAddress(locals.payer)
                 /\ InTrace("read:oracle")
                 /\ ix.accounts.tokenAccount = locals.oracle.tokenAccount
                 /\ ix.accounts.tokenAccount = StakingWallet
                 /\ ix.accounts.oracleAuthority = locals.oracle.oracleAuthority
                 /\ ix.accounts.oracleAuthority \in {Payer, AltAuthority}
                 /\ locals.txn.signers =
                       IF params.authority # Undefined
                       THEN <<params.authority>> ELSE <<>>
       /\ op = "withdrawInstruction" => NumSends = 0
       /\ NumSends <= 1
       /\ (op = "withdraw" /\ pc = "done" /\ result.status = "ok") => NumSends = 1
       /\ (pc = "done" /\ result.status = "ok") => locals.txn # Undefined

\* a withdraw to a given account, signed by a given authority, has gone through
C6_Witness ==
    /\ op = "withdraw"
    /\ pc = "done"
    /\ result.status = "ok"
    /\ params.withdrawAccount = WithdrawDest
    /\ params.authority = Keypair(AltAuthority)
    /\ locals.txn.ixns[1].accounts.withdrawAccount = WithdrawDest

\* the address and bump of the seeds 'OracleAccountData', queue, wallet
OracleSeedAddress(programId, queue, wallet) ==
    FindProgramAddressSync(<<BufferFrom("OracleAccountData"), queue, wallet>>, programId)

\* C7: what fromSeed returns is the program address and bump of the seeds
\* ('OracleAccountData', queue, wallet), in that order, under the program id,
\* and of nothing else; and the oracle account and oracleBump of the oracleInit
\* that createInstructions builds are those of its queue and of the token
\* wallet the same transaction creates.
C7_SeedDerivation ==
    /\ (op = "fromSeed" /\ pc = "done") =>
          LET pda == OracleSeedAddress(params.program.programId, params.queue,
                                       params.wallet)
          IN  /\ result.value[1].publicKey = pda[1]
              /\ result.value[1].program = params.program
              /\ result.value[2] = pda[2]
    /\ (op \in CreateOps /\ locals.oracleInit # Undefined) =>
          LET init    == locals.oracleInit.ixns[4]
              created == locals.oracleInit.ixns[1].accounts.newAccountPubkey
              pda     == OracleSeedAddress(ProgramId, params.queueAccount.publicKey,
                                           created)
          IN  /\ locals.oracleInit.ixns[1].name = "systemCreateAccount"
              /\ created = PublicKeyOf(locals.tokenWallet)
              /\ init.accounts.wallet = created
              /\ init.accounts.queue = params.queueAccount.publicKey
              /\ init.accounts.oracle = pda[1]
              /\ init.args.oracleBump = pda[2]
              /\ locals.oracleAccount.publicKey = pda[1]

\* createInstructions has returned an oracle derived from a fresh wallet
\* whose first candidate address lies on the curve
C7_Witness ==
    /\ op = "createInstructions"
    /\ pc = "done"
    /\ result.status = "ok"
    /\ result.value[1].publicKey = locals.oracleInit.ixns[4].accounts.oracle
    /\ locals.oracleInit.ixns[4].args.oracleBump < MaxBump

InitNames ==
    <<"systemCreateAccount", "splInitializeAccount", "splSetAuthority", "oracleInit">>

\* C8: createInstructions submits nothing; what it returns is one
\* TransactionObject that starts with the four init instructions in order and
\* goes on with the stake instructions exactly when params.stakeAmount is
\* present and > 0; a missing, zero or negative stakeAmount is no error here;
\* and when init plus stake do not pack into one transaction the call rejects
\* with 'Expected a single TransactionObject' and returns nothing.
C8_CreateInstructions ==
    /\ op = "createInstructions" => NumSends = 0
    /\ (op \in CreateOps /\ pc = "done") =>
          /\ result.error # StakeAmountMessage
          /\ ~(params.stakeAmount # NoAmount /\ params.stakeAmount[1] > 0)
                => result.error # "Expected a single TransactionObject"
    /\ (op \in CreateOps /\ locals.txn # Undefined) =>
          LET txn    == locals.txn
              staked == params.stakeAmount # NoAmount /\ params.stakeAmount[1] > 0
          IN  /\ Len(txn.ixns) >= 4
              /\ [i \in 1..4 |-> txn.ixns[i].name] = InitNames
              /\ SubSeq(txn.ixns, 1, 4) = locals.oracleInit.ixns
              /\ staked <=> Len(txn.ixns) > 4
              /\ staked => /\ txn.ixns[Len(txn.ixns)].name = "splTransfer"
                           /\ txn.ixns[Len(txn.ixns)].accounts.destination
                                 = PublicKeyOf(locals.tokenWallet)
                           /\ \A i \in 5..Len(txn.ixns) :
                                 txn.ixns[i].name \in {"wrap", "splTransfer"}
              /\ Len(txn.ixns) <= MaxIxnsPerTxn
    /\ (op = "createInstructions" /\ pc = "done" /\ result.status = "ok") =>
          /\ result.value[2] = locals.txn
          /\ Len(locals.txns) \in {1, 2}
          /\ result.value[2].ixns =
                IF Len(locals.txns) = 1 THEN locals.txns[1].ixns
                ELSE locals.txns[1].ixns \o locals.txns[2].ixns
    /\ (op \in CreateOps /\ pc = "done"
          /\ result.error = "Expected a single TransactionObject") =>
          /\ locals.txn = Undefined
          /\ Len(locals.txns) = 2
          /\ Len(locals.txns[1].ixns) + Len(locals.txns[2].ixns) > MaxIxnsPerTxn

\* createInstructions has rejected an init and a stake that do not fit one
\* transaction
C8_Witness ==
    /\ op = "createInstructions"
    /\ pc = "done"
    /\ result.error = "Expected a single TransactionObject"
    /\ Len(locals.txns) = 2

PermissionMessage ==
    "A requested oracle permission pda account has not been initialized."

\* C9 (what holds in every state): a heartbeat that rejected with the
\* permission message or with IncorrectAuthority has submitted nothing;
\* IncorrectAuthority means an authority was given, differs from the
\* oracleAuthority read on-chain, and the permission account had been loaded;
\* a heartbeat that goes to submission names the on-chain oracleAuthority, is
\* signed by params.authority exactly when given, and a given authority is
\* the on-chain one.
C9_HeartbeatChecks ==
    op = "heartbeat" =>
       /\ (pc = "done" /\ result.error = PermissionMessage) =>
             /\ NumSends = 0
             /\ trace[Len(trace)] = "read:permission"
       /\ (pc = "done" /\ result.error = "IncorrectAuthority") =>
             /\ NumSends = 0
             /\ trace[Len(trace)] = "read:permission"
             /\ params.authority # Undefined
             /\ PublicKeyOf(params.authority) # locals.oracle.oracleAuthority
       /\ locals.txn # Undefined =>
             /\ locals.txn.ixns[1].accounts.oracleAuthority
                   = locals.oracle.oracleAuthority
             /\ locals.txn.signers = IF params.authority # Undefined
                                     THEN <<params.authority>> ELSE <<>>
             /\ params.authority # Undefined =>
                   PublicKeyOf(params.authority) = locals.oracle.oracleAuthority
       /\ NumSends = 1 => locals.txn # Undefined

\* C9 (the order of the checks): a heartbeat whose permission account is not
\* there when it is loaded rejects with the permission message, whatever the
\* authority given.
C9_PermissionCheckedFirst ==
    (op = "heartbeat" /\ pc = "heartbeat:loadPermission" /\ pc' # pc
        /\ ~chain.permission)
    => result'.error = PermissionMessage

\* C9: heartbeat checks the permission account, then the authority, and
\* submits only when both checks pass.
C9_HeartbeatPreflight ==
    /\ []C9_HeartbeatChecks
    /\ [][C9_PermissionCheckedFirst]_vars

\* a heartbeat with a wrong authority was rejected after its permission
\* account loaded
C9_Witness ==
    /\ op = "heartbeat"
    /\ pc = "done"
    /\ result.error = "IncorrectAuthority"
    /\ params.authority = Keypair(AltAuthority)
    /\ locals.oracle.oracleAuthority = Payer

\* C10: the gcOracle of the heartbeat instruction that goes to submission is
\* a defined public key: the oracle's own key when the loaded oracle list is
\* empty, and otherwise the member of that list at queue.gcIdx; stated for
\* the heartbeats that read the queue data and the oracle list themselves.
C10_GcOracleDefined ==
    ( /\ op = "heartbeat"
      /\ pc = "heartbeat:signAndSend"
      /\ params.queue = Undefined
      /\ InTrace("read:queue")
      /\ InTrace("read:oracles") ) =>
       LET gcOracle == locals.txn.ixns[1].accounts.gcOracle
       IN  /\ gcOracle # Undefined
           /\ IF locals.oracles = <<>>
              THEN gcOracle = account.publicKey
              ELSE /\ locals.queue.gcIdx + 1 \in DOMAIN locals.oracles
                   /\ gcOracle = locals.oracles[locals.queue.gcIdx + 1]

TransferWrappedSolDone == op = "transferWrappedSol" /\ pc = "done"

\* the transaction transferWrappedSol builds asks the associated-token program
\* for an account owned by the payer at the address derived for the ephemeral
\* key: the cluster rejects it, so no call ever reaches the final read
TransferWrappedSolNeverConfirmed ==
    op = "transferWrappedSol" =>
        /\ pc # "transferWrappedSol:finalBalance"
        /\ pc = "done" => result.status = "error"

\* a completed call has submitted at most one transaction, and one if it resolved
C11_OneTransaction ==
    TransferWrappedSolDone =>
        /\ NumSubmitted <= 1
        /\ result.status = "ok" => NumSubmitted = 1

\* the transaction's five instructions, in order, and its two signers
C11_SignedAndOrdered ==
    (op = "transferWrappedSol" /\ locals.tx # Undefined) =>
        /\ [i \in DOMAIN locals.tx.ixns |-> locals.tx.ixns[i].name]
               = << "createAssociatedTokenAccount", "systemTransfer",
                    "syncNative", "splTransfer", "closeAccount" >>
        /\ locals.tx.ixns[1].associatedToken = locals.ephemeralWallet
        /\ locals.tx.ixns[2].toPubkey = locals.ephemeralWallet
        /\ locals.tx.ixns[2].lamports = params.amount
        /\ locals.tx.ixns[3].account = locals.ephemeralWallet
        /\ locals.tx.ixns[4].source = locals.ephemeralWallet
        /\ locals.tx.ixns[4].destination
               = GetAssociatedAddress(PublicKeyOf(params.payerKeypair))
        /\ locals.tx.ixns[4].amount = params.amount
        /\ locals.tx.ixns[5].account = locals.ephemeralWallet
        /\ locals.tx.ixns[5].destination = PublicKeyOf(params.payerKeypair)
        /\ locals.tx.signers = { PublicKeyOf(params.payerKeypair),
                                 PublicKeyOf(locals.ephemeralAccount) }

\* after a completed call the ephemeral account does not exist
C11_EphemeralGone ==
    (TransferWrappedSolDone /\ locals.ephemeralWallet # Undefined) =>
        locals.ephemeralWallet \notin DOMAIN chain.tokens

\* a resolved call moved exactly `amount` into the payer's associated account
\* and returns the balance it read after the confirmation
C11_OnSuccess ==
    (TransferWrappedSolDone /\ result.status = "ok") =>
        /\ locals.moved = Amount(params.amount)
        /\ Len(trace) >= 2
        /\ trace[Len(trace) - 1] = "send:confirmed"
        /\ trace[Len(trace)] = "read:tokenAccount"

\* a rejected call has changed no balance: none of its transactions was
\* confirmed
C11_OnFailure ==
    (TransferWrappedSolDone /\ result.status = "error") =>
        ~InTrace("send:confirmed")

\* C11: transferWrappedSol submits exactly one transaction, signed by the payer
\* and the ephemeral keypair, with the five instructions in order (create the
\* ephemeral account, fund it, sync-native, transfer to the payer's associated
\* account, close); after any completed call the ephemeral account does not
\* exist; on success the payer's associated balance grew by exactly `amount`
\* and the balance read after confirmation is returned; on failure the error
\* propagates and no balance has changed.
C11_TransferWrappedSol ==
    /\ C11_OneTransaction
    /\ C11_SignedAndOrdered
    /\ C11_EphemeralGone
    /\ C11_OnSuccess
    /\ C11_OnFailure

====
